---- MODULE Spec2Model ----
(***************************************************************************)
(* Model of nln's trailing-newline filter, src/src/lib.rs `snickerdoodle`: *)
(* a BufRead source is pulled chunk by chunk (fill_buf / consume), the     *)
(* newline-class suffix of what has been read is held back in `nlbuf`, and *)
(* everything else is pushed to a Write sink (write_all / flush).          *)
(*                                                                         *)
(* Bytes are integers.  Slices are sequences; Rust's 0-based indices are   *)
(* kept and converted where a slice is taken.  One action per statement of *)
(* the function that does I/O or changes a local; `pc` is the position in  *)
(* the function.  `log` records the calls made on the source and the sink. *)
(***************************************************************************)
EXTENDS Integers, Sequences, FiniteSets, TLC

\* ---------------------------------------------------------------- bounds
\* longest input stream explored
MaxLen == 4

\* ------------------------------------------------------------- constants
LF == 10
CR == 13

\* the byte values inputs are drawn from: both newline-class bytes and two
\* distinguishable content bytes ('a', 'b')
Bytes == {LF, CR, 97, 98}

\* the io::Error values a failing call of the source or the sink may return
IOErrors == {"EIO", "EPIPE"}

\* Option::None for the index returned by rposition
None == -1

VARIABLES
    input,             \* the whole byte stream behind the reader `i`
    pos,               \* number of bytes of `input` the reader has consumed
    buf,               \* the chunk borrowed from fill_buf (line 16)
    n,                 \* `n` (line 21)
    last_not_newline,  \* `last_not_newline` (line 24), None when absent
    nlbuf,             \* `nlbuf` (line 14)
    sink,              \* bytes the writer `o` has received
    pc,                \* position in snickerdoodle
    result,            \* "running", "Ok", or the io::Error returned
    log,               \* calls made on `i` and `o`, in order
    run,               \* 1 for the call on `input`, 2 for a call on its output
    first,             \* output of run 1 (only set by Rerun)
    at_step,           \* history: sink, nlbuf, pos and log length when the
                       \* current chunk was borrowed, and that chunk
    args,              \* main: env::args(), program name first
    exit_status,       \* main: the process exit status, None while running
    printed,           \* main: what println! wrote (help / version text)
    eprinted           \* main: what was written to the error stream

\* the state of the command-line wrapper
cli == <<args, exit_status, printed, eprinted>>

vars == <<input, pos, buf, n, last_not_newline, nlbuf, sink, pc, result, log,
          run, first, at_step, args, exit_status, printed, eprinted>>

\* ------------------------------------------------------------- helpers

\* all sequences over S of length at most k
RECURSIVE SeqsUpTo(_, _)
SeqsUpTo(S, k) ==
    IF k = 0 THEN {<<>>}
    ELSE LET shorter == SeqsUpTo(S, k - 1)
         IN  shorter \cup {Append(t, b) : t \in {u \in shorter : Len(u) = k - 1}, b \in S}

\* fn is_newline(b: u8) -> bool
is_newline_lf_only(b) == b = LF
is_newline(b) == b = CR \/ b = LF

\* buf.iter().rposition(|&b| !is_newline(b)): 0-based index of the last
\* byte that is not a newline, None when there is none
rposition_or_zero(s) ==
    LET hits == {k \in 0..(Len(s) - 1) : ~is_newline(s[k + 1])}
    IN  IF hits = {} THEN 0
        ELSE CHOOSE k \in hits : \A j \in hits : j <= k
position(s) ==
    LET hits == {k \in 0..(Len(s) - 1) : ~is_newline(s[k + 1])}
    IN  IF hits = {} THEN None
        ELSE CHOOSE k \in hits : \A j \in hits : k <= j
rposition(s) ==
    LET hits == {k \in 0..(Len(s) - 1) : ~is_newline(s[k + 1])}
    IN  IF hits = {} THEN None
        ELSE CHOOSE k \in hits : \A j \in hits : j <= k

\* &buf[..=p]
slice_to_inclusive_all(s, p) == s
slice_to_inclusive_short(s, p) == SubSeq(s, 1, p)
slice_to_inclusive(s, p) == SubSeq(s, 1, p + 1)

\* &buf[p + 1..] is slice_from(buf, p + 1)
slice_from_keep(s, k) == SubSeq(s, k, Len(s))
slice_from(s, k) == SubSeq(s, k + 1, Len(s))

\* Vec::extend_from_slice
extend_from_slice_replace(v, s) == s
extend_from_slice(v, s) == v \o s

\* Vec::clear
clear_noop(v) == v
clear(v) == <<>>

\* BufRead::fill_buf at reader position p: the chunks it may hand out.  Any
\* non-empty prefix of what is left; the empty chunk only at end of input.
fill_buf(inp, p) ==
    IF p >= Len(inp) THEN {<<>>}
    ELSE {SubSeq(inp, p + 1, p + k) : k \in 1..(Len(inp) - p)}

\* BufRead::consume(amt)
consume_one(p, amt) == p + 1
consume(p, amt) == p + amt

\* Write::write_all(x) on a sink holding o: either every byte of x arrives,
\* or the call fails with some error after only a part of x has arrived.
write_all_rollback(o, x) ==
    {[out |-> o \o x, err |-> "none"]}
    \cup {[out |-> <<>>, err |-> e] : e \in IOErrors}
write_all(o, x) ==
    {[out |-> o \o x, err |-> "none"]}
    \cup {[out |-> o \o SubSeq(x, 1, k), err |-> e] :
             k \in 0..(IF Len(x) = 0 THEN 0 ELSE Len(x) - 1), e \in IOErrors}

\* one entry of the call log
Call(op, err) == [op |-> op, err |-> err]

\* history record: nothing borrowed yet
NoStep == [sink |-> <<>>, nlbuf |-> <<>>, pos |-> 0, calls |-> 0, chunk |-> <<>>]

\* history record taken when fill_buf hands out `chunk` (line 16); `calls`
\* is the index that this fill_buf gets in the log
StepStart(chunk) ==
    [sink |-> sink, nlbuf |-> nlbuf, pos |-> pos, calls |-> Len(log) + 1,
     chunk |-> chunk]

\* ---------------------------------------------------------------- Init
\* line 12-14: the call starts with an empty nlbuf, nothing read or written
Init ==
    /\ input \in SeqsUpTo(Bytes, MaxLen)
    /\ pos = 0
    /\ buf = <<>>
    /\ n = 0
    /\ last_not_newline = None
    /\ nlbuf = <<>>
    /\ sink = <<>>
    /\ pc = "fill_buf"
    /\ result = "running"
    /\ log = <<>>
    /\ run = 1
    /\ first = <<>>
    /\ at_step = NoStep
    /\ args = <<>>
    /\ exit_status = None
    /\ printed = <<>>
    /\ eprinted = <<>>

\* -------------------------------------------------------------- actions

\* line 16, error arm of `?`: the read fails and the error is returned
FillBufErr ==
    /\ pc = "fill_buf"
    /\ \E e \in IOErrors :
          /\ result' = e
          /\ log' = Append(log, Call("fill_buf", e))
    /\ pc' = "done"
    /\ UNCHANGED <<input, pos, buf, n, last_not_newline, nlbuf, sink,
                 run, first, at_step, cli>>

\* lines 16-20: a chunk is borrowed; the empty chunk leaves the loop
FillBufEmptyIsErr ==
    /\ pc = "fill_buf"
    /\ \E chunk \in fill_buf(input, pos) :
          /\ buf' = chunk
          /\ at_step' = StepStart(chunk)
          /\ IF chunk = <<>>
                THEN pc' = "done" /\ result' = "EIO"
                ELSE pc' = "scan" /\ result' = result
    /\ log' = Append(log, Call("fill_buf", "none"))
    /\ UNCHANGED <<input, pos, n, last_not_newline, nlbuf, sink,
                 run, first, cli>>
FillBuf ==
    /\ pc = "fill_buf"
    /\ \E chunk \in fill_buf(input, pos) :
          /\ buf' = chunk
          /\ pc' = IF chunk = <<>> THEN "flush" ELSE "scan"
          /\ at_step' = StepStart(chunk)
    /\ log' = Append(log, Call("fill_buf", "none"))
    /\ UNCHANGED <<input, pos, n, last_not_newline, nlbuf, sink, result,
                 run, first, cli>>

\* lines 21-24: n = buf.len(), and the let-else on rposition
Scan ==
    /\ pc = "scan"
    /\ n' = Len(buf)
    /\ last_not_newline' = rposition(buf)
    /\ pc' = IF rposition(buf) = None THEN "extend_all" ELSE "write_nlbuf"
    /\ UNCHANGED <<input, pos, buf, nlbuf, sink, result, log,
                 run, first, at_step, cli>>

\* line 26: only newlines in the chunk, all of it goes to nlbuf
ExtendAll ==
    /\ pc = "extend_all"
    /\ nlbuf' = extend_from_slice(nlbuf, buf)
    /\ pc' = "consume_all"
    /\ UNCHANGED <<input, pos, buf, n, last_not_newline, sink, result, log,
                 run, first, at_step, cli>>

\* lines 27-28: consume(n); continue
ConsumeAll ==
    /\ pc = "consume_all"
    /\ pos' = consume(pos, n)
    /\ log' = Append(log, Call("consume", "none"))
    /\ buf' = <<>>
    /\ n' = 0
    /\ last_not_newline' = None
    /\ pc' = "fill_buf"
    /\ UNCHANGED <<input, nlbuf, sink, result,
                 run, first, at_step, cli>>

\* line 32: o.write_all(&nlbuf)?
WriteNlbufIgnoreErr ==
    /\ pc = "write_nlbuf"
    /\ \E w \in write_all(sink, nlbuf) :
          /\ sink' = w.out
          /\ log' = Append(log, Call("write_nlbuf", w.err))
    /\ pc' = "clear"
    /\ UNCHANGED <<input, pos, buf, n, last_not_newline, nlbuf, result,
                 run, first, at_step, cli>>
WriteNlbuf ==
    /\ pc = "write_nlbuf"
    /\ \E w \in write_all(sink, nlbuf) :
          /\ sink' = w.out
          /\ log' = Append(log, Call("write_nlbuf", w.err))
          /\ IF w.err = "none"
                THEN pc' = "clear" /\ result' = result
                ELSE pc' = "done" /\ result' = w.err
    /\ UNCHANGED <<input, pos, buf, n, last_not_newline, nlbuf,
                 run, first, at_step, cli>>

\* line 33: nlbuf.clear()
Clear ==
    /\ pc = "clear"
    /\ nlbuf' = clear(nlbuf)
    /\ pc' = "write_prefix"
    /\ UNCHANGED <<input, pos, buf, n, last_not_newline, sink, result, log,
                 run, first, at_step, cli>>

\* line 36: o.write_all(&buf[..=last_not_newline])?
WritePrefix ==
    /\ pc = "write_prefix"
    /\ \E w \in write_all(sink, slice_to_inclusive(buf, last_not_newline)) :
          /\ sink' = w.out
          /\ log' = Append(log, Call("write_prefix", w.err))
          /\ IF w.err = "none"
                THEN pc' = "extend_suffix" /\ result' = result
                ELSE pc' = "done" /\ result' = w.err
    /\ UNCHANGED <<input, pos, buf, n, last_not_newline, nlbuf,
                 run, first, at_step, cli>>

\* line 39: nlbuf.extend_from_slice(&buf[last_not_newline + 1..])
ExtendSuffix ==
    /\ pc = "extend_suffix"
    /\ nlbuf' = extend_from_slice(nlbuf, slice_from(buf, last_not_newline + 1))
    /\ pc' = "consume"
    /\ UNCHANGED <<input, pos, buf, n, last_not_newline, sink, result, log,
                 run, first, at_step, cli>>

\* line 41: i.consume(n), then back to the top of the loop
Consume ==
    /\ pc = "consume"
    /\ pos' = consume(pos, n)
    /\ log' = Append(log, Call("consume", "none"))
    /\ buf' = <<>>
    /\ n' = 0
    /\ last_not_newline' = None
    /\ pc' = "fill_buf"
    /\ UNCHANGED <<input, nlbuf, sink, result,
                 run, first, at_step, cli>>

\* line 43: o.flush() is the function's value
FlushWritesNlbuf ==
    /\ pc = "flush"
    /\ sink' = sink \o nlbuf
    /\ \E e \in IOErrors \cup {"none"} :
          /\ log' = Append(log, Call("flush", e))
          /\ result' = IF e = "none" THEN "Ok" ELSE e
    /\ pc' = "done"
    /\ UNCHANGED <<input, pos, buf, n, last_not_newline, nlbuf,
                 run, first, at_step, cli>>
FlushSkipped ==
    /\ pc = "flush"
    /\ result' = "Ok"
    /\ pc' = "done"
    /\ UNCHANGED <<input, pos, buf, n, last_not_newline, nlbuf, sink, log,
                 run, first, at_step, cli>>
Flush ==
    /\ pc = "flush"
    /\ \E e \in IOErrors \cup {"none"} :
          /\ log' = Append(log, Call("flush", e))
          /\ result' = IF e = "none" THEN "Ok" ELSE e
    /\ pc' = "done"
    /\ UNCHANGED <<input, pos, buf, n, last_not_newline, nlbuf, sink,
                 run, first, at_step, cli>>

\* a second call of snickerdoodle, on what the first call wrote, with a
\* fresh sink (lines 12-14 again)
Rerun ==
    /\ pc = "done"
    /\ result = "Ok"
    /\ run = 1
    /\ run' = 2
    /\ first' = sink
    /\ input' = sink
    /\ pos' = 0
    /\ buf' = <<>>
    /\ n' = 0
    /\ last_not_newline' = None
    /\ nlbuf' = <<>>
    /\ sink' = <<>>
    /\ pc' = "fill_buf"
    /\ result' = "running"
    /\ log' = <<>>
    /\ at_step' = NoStep
    /\ UNCHANGED cli

Next ==
    \/ FillBufErr
    \/ FillBuf
    \/ Scan
    \/ ExtendAll
    \/ ConsumeAll
    \/ WriteNlbuf
    \/ Clear
    \/ WritePrefix
    \/ ExtendSuffix
    \/ Consume
    \/ Flush

Spec == Init /\ [][Next]_vars

NextIdem == Next \/ Rerun

SpecIdem == Init /\ [][NextIdem]_vars

\* ---------------------------------------------- src/src/main.rs, `main`

\* exit status of process::exit(1) and of a main that returns Err
ExitFailure == 1

\* exit status of a main that returns Ok(())
ExitSuccess == 0

\* the argument vectors explored: none at all, the program name alone, each
\* recognised flag, and arguments that are not recognised (near misses, a
\* file name, the empty string, a flag in second place)
ArgLists ==
    { <<>>, <<"nln">>,
      <<"nln", "-h">>, <<"nln", "--help">>, <<"nln", "-v">>, <<"nln", "--version">>,
      <<"nln", "--help", "file.txt">>, <<"nln", "-v", "-h">>,
      <<"nln", "-x">>, <<"nln", "file.txt">>, <<"nln", "">>, <<"nln", "-hv">>,
      <<"nln", "--Help">>, <<"nln", "-">>, <<"nln", "file.txt", "--help">> }

\* the process starts in main with some argument vector and some bytes
\* waiting on standard input; nothing has been read or printed
InitCli ==
    /\ input \in SeqsUpTo(Bytes, MaxLen)
    /\ pos = 0
    /\ buf = <<>>
    /\ n = 0
    /\ last_not_newline = None
    /\ nlbuf = <<>>
    /\ sink = <<>>
    /\ pc = "main"
    /\ result = "running"
    /\ log = <<>>
    /\ run = 1
    /\ first = <<>>
    /\ at_step = NoStep
    /\ args \in ArgLists
    /\ exit_status = None
    /\ printed = <<>>
    /\ eprinted = <<>>

\* main.rs lines 10-29: the match on args[1] when there is one
MainArgsLenient ==
    /\ pc = "main"
    /\ pc' = IF Len(args) > 1
                THEN CASE args[2] \in {"--help", "-h"} -> "print_help"
                       [] args[2] \in {"--version", "-v"} -> "print_version"
                       [] OTHER -> "call"
                ELSE "call"
    /\ UNCHANGED <<input, pos, buf, n, last_not_newline, nlbuf, sink, result, log,
                 run, first, at_step, cli>>
MainArgs ==
    /\ pc = "main"
    /\ pc' = IF Len(args) > 1
                THEN CASE args[2] \in {"--help", "-h"} -> "print_help"
                       [] args[2] \in {"--version", "-v"} -> "print_version"
                       [] OTHER -> "unknown"
                ELSE "call"
    /\ UNCHANGED <<input, pos, buf, n, last_not_newline, nlbuf, sink, result, log,
                 run, first, at_step, cli>>

\* main.rs lines 16-17 and 38-52: print_help(); return Ok(())
PrintHelp ==
    /\ pc = "print_help"
    /\ printed' = Append(printed, "help")
    /\ exit_status' = ExitSuccess
    /\ pc' = "exited"
    /\ UNCHANGED <<input, pos, buf, n, last_not_newline, nlbuf, sink, result, log,
                 run, first, at_step, args, eprinted>>

\* main.rs lines 20-21 and 54-56: print_version(); return Ok(())
PrintVersion ==
    /\ pc = "print_version"
    /\ printed' = Append(printed, "version")
    /\ exit_status' = ExitSuccess
    /\ pc' = "exited"
    /\ UNCHANGED <<input, pos, buf, n, last_not_newline, nlbuf, sink, result, log,
                 run, first, at_step, args, eprinted>>

\* main.rs lines 24-26: two eprintln! and process::exit(1)
UnknownArg ==
    /\ pc = "unknown"
    /\ eprinted' = eprinted \o <<"Unknown argument", "Use --help for usage information">>
    /\ exit_status' = ExitFailure
    /\ pc' = "exited"
    /\ UNCHANGED <<input, pos, buf, n, last_not_newline, nlbuf, sink, result, log,
                 run, first, at_step, args, printed>>

\* main.rs lines 32-34: snickerdoodle(stdin().lock(), &mut stdout) is entered
MainCall ==
    /\ pc = "call"
    /\ pc' = "fill_buf"
    /\ UNCHANGED <<input, pos, buf, n, last_not_newline, nlbuf, sink, result, log,
                 run, first, at_step, cli>>

\* main.rs lines 34-35: `?` on the call's value, then Ok(()); a main that
\* returns Err has its error reported on the error stream and exits with
\* failure
MainReturn ==
    /\ pc = "done"
    /\ IF result = "Ok"
          THEN exit_status' = ExitSuccess /\ eprinted' = eprinted
          ELSE exit_status' = ExitFailure /\ eprinted' = Append(eprinted, "Error")
    /\ pc' = "exited"
    /\ UNCHANGED <<input, pos, buf, n, last_not_newline, nlbuf, sink, result, log,
                 run, first, at_step, args, printed>>

NextCli ==
    \/ MainArgs
    \/ PrintHelp
    \/ PrintVersion
    \/ UnknownArg
    \/ MainCall
    \/ Next
    \/ MainReturn

SpecCli == InitCli /\ [][NextCli]_vars

\* the function runs to its end: no step of it is postponed forever
SpecLive == Init /\ [][Next]_vars /\ WF_vars(Next)

\* ------------------------------------------------- reference definitions

\* the newline class of the specification, {0x0A, 0x0D}
NewlineClass == {10, 13}

\* trim(s): s with its maximal suffix of newline-class bytes removed
RECURSIVE trim(_)
trim(s) ==
    IF s = <<>> THEN s
    ELSE IF s[Len(s)] \in NewlineClass THEN trim(SubSeq(s, 1, Len(s) - 1))
    ELSE s

IsPrefix(a, b) == Len(a) <= Len(b) /\ SubSeq(b, 1, Len(a)) = a

\* indices of the log entries of one operation
CallsOf(op) == {k \in 1..Len(log) : log[k].op = op}

\* the call returned success
Returned == pc = "done" /\ result = "Ok"

\* the call returned an error
Aborted == pc = "done" /\ result \in IOErrors

\* length of the longest contiguous run of newline-class bytes in s
LongestNewlineRun(s) ==
    LET runs == {d \in 0..Len(s) :
                   \E a \in 1..(Len(s) + 1) :
                      /\ a + d - 1 <= Len(s)
                      /\ \A k \in a..(a + d - 1) : s[k] \in NewlineClass}
    IN  CHOOSE d \in runs : \A e \in runs : e <= d

\* ---------------------------------------------------------------- claims

\* C1: whatever the chunking, a call that returns success has written
\* exactly trim(input) to the sink.
C1_OutputIsTrim == Returned => sink = trim(input)

\* C1 witness: an input with an interior and a trailing newline, delivered
\* in two chunks, has been processed to the end.
C1_Witness ==
    /\ Returned
    /\ input = <<97, 10, 98, 13>>
    /\ Cardinality(CallsOf("consume")) = 2
    /\ sink = <<97, 10, 98>>

\* C2: on success the sink is empty or its last byte is neither \n nor \r.
C2_NoTrailingNewline ==
    Returned => (sink = <<>> \/ (sink[Len(sink)] # 10 /\ sink[Len(sink)] # 13))

\* C2 witness: a non-empty output for an input that ended in \r\n.
C2_Witness ==
    /\ Returned
    /\ Len(input) >= 3
    /\ input[Len(input)] = 10
    /\ input[Len(input) - 1] = 13
    /\ sink # <<>>

\* C3: on success every input byte that has a non-newline byte at or after
\* it sits in the output at the same index with the same value, so every
\* interior newline run is kept verbatim and in place.
C3_InteriorPreserved ==
    Returned =>
        \A k \in 1..Len(input) :
            (\E j \in k..Len(input) : input[j] \notin NewlineClass)
                => (k <= Len(sink) /\ sink[k] = input[k])

\* C3 witness: a mixed run at the start of the input that arrived as its
\* own all-newline chunk plus the head of the next chunk, then content.
C3_Witness ==
    /\ Returned
    /\ Len(input) >= 4
    /\ input[1] = 13 /\ input[2] = 10 /\ input[3] = 10
    /\ input[4] \notin NewlineClass
    /\ Cardinality(CallsOf("consume")) >= 2
    /\ Cardinality(CallsOf("write_nlbuf")) = 1
    /\ SubSeq(sink, 1, 4) = SubSeq(input, 1, 4)

\* C4: for an input without any non-newline byte the sink stays empty in
\* every state of the call and no write is ever issued.
C4_OnlyNewlinesNothingWritten ==
    (\A k \in 1..Len(input) : input[k] \in NewlineClass)
        => (sink = <<>> /\ CallsOf("write_nlbuf") = {} /\ CallsOf("write_prefix") = {})

\* C4 witness: a mixed \r / \n input of three bytes, read in several
\* chunks, has been processed to the end.
C4_Witness ==
    /\ Returned
    /\ input = <<13, 10, 13>>
    /\ Cardinality(CallsOf("consume")) >= 2
    /\ sink = <<>>

\* C5: if input = w ++ r with w empty or ending in a non-newline byte and r
\* over {\n, \r}, the output of a successful call is exactly w.
C5_WholeMixedRunRemoved ==
    Returned =>
        \A k \in 0..Len(input) :
            ( /\ (k = 0 \/ input[k] \notin NewlineClass)
              /\ \A j \in (k + 1)..Len(input) : input[j] \in NewlineClass )
                => sink = SubSeq(input, 1, k)

\* C5 witness: w holds a \r before its last byte and r is \n\r.
C5_Witness ==
    /\ Returned
    /\ input = <<13, 98, 10, 13>>
    /\ sink = <<13, 98>>

\* C6: a second call on the output of a first call, under any chunking of
\* either, writes that same output again.
C6_Idempotent == (run = 2 /\ Returned) => sink = first

\* C6 witness: the second call has finished on an output that has an
\* interior newline and came from an input with a trailing run.
C6_Witness ==
    /\ run = 2
    /\ Returned
    /\ Len(first) >= 3
    /\ \E k \in 1..Len(first) : first[k] \in NewlineClass
    /\ Cardinality(CallsOf("consume")) >= 2
    /\ sink = first

\* C7: a call that returned success has flushed exactly once, as its last
\* call, right after the read that found the source exhausted and after
\* every write; a call aborted by a read or write failure has not flushed;
\* no call flushes twice.
C7_FlushOnceAtEnd ==
    /\ Cardinality(CallsOf("flush")) <= 1
    /\ CallsOf("flush") # {} => (pc = "done" /\ log[Len(log)].op = "flush")
    /\ Returned =>
          /\ Len(log) >= 2
          /\ CallsOf("flush") = {Len(log)}
          /\ log[Len(log)].err = "none"
          /\ log[Len(log) - 1] = [op |-> "fill_buf", err |-> "none"]
          /\ pos = Len(input)
    /\ (Aborted /\ log[Len(log)].op # "flush") => CallsOf("flush") = {}

\* C7 witness: a successful call that wrote to the sink and then flushed.
C7_Witness ==
    /\ Returned
    /\ CallsOf("write_prefix") # {}
    /\ CallsOf("write_nlbuf") # {}
    /\ log[Len(log)].op = "flush"

\* C8: a failed call on the source or the sink is the last call made, the
\* function is over, and its value is the error of that call.
C8_FirstFailureEndsRun ==
    /\ \A k \in 1..Len(log) :
          log[k].err # "none"
              => (k = Len(log) /\ pc = "done" /\ result = log[k].err)
    /\ result \in IOErrors => (log # <<>> /\ log[Len(log)].err = result)

\* C8 witness: the write of the pending newlines failed in the second step
\* of a call, after a successful first step.
C8_Witness ==
    /\ Aborted
    /\ log[Len(log)].op = "write_nlbuf"
    /\ CallsOf("consume") # {}
    /\ CallsOf("write_prefix") # {}

C10_BoundedPending == Len(nlbuf) <= LongestNewlineRun(input)

\* C10 witness: nlbuf holds a whole two-byte run gathered from two chunks,
\* in an input that has content on both sides of it.
C10_Witness ==
    /\ Len(nlbuf) = 2
    /\ LongestNewlineRun(input) = 2
    /\ input[1] \notin NewlineClass
    /\ input[Len(input)] \notin NewlineClass
    /\ Cardinality(CallsOf("consume")) >= 2

\* the first argument after the program name, "" standing for none (the
\* explored vectors with an empty first argument are told apart by Len)
HasArg == Len(args) >= 2

\* C11: without an argument main runs the filter from standard input to
\* standard output and prints nothing else; with -h/--help or -v/--version
\* as first argument it prints usage or version, exits 0 and never reads
\* standard input; with any other first argument it writes to the error
\* stream, exits non-zero, never reads standard input and writes no output.
C11_CliDispatch ==
    /\ ~HasArg =>
          /\ printed = <<>>
          /\ pc = "exited" =>
                /\ log # <<>> /\ log[1].op = "fill_buf"
                /\ exit_status = 0 <=> result = "Ok"
                /\ exit_status = 0 => (sink = trim(input) /\ eprinted = <<>>)
    /\ (HasArg /\ args[2] \in {"-h", "--help"}) =>
          /\ log = <<>> /\ sink = <<>> /\ eprinted = <<>> /\ pos = 0
          /\ pc = "exited" => (exit_status = 0 /\ printed = <<"help">>)
    /\ (HasArg /\ args[2] \in {"-v", "--version"}) =>
          /\ log = <<>> /\ sink = <<>> /\ eprinted = <<>> /\ pos = 0
          /\ pc = "exited" => (exit_status = 0 /\ printed = <<"version">>)
    /\ (HasArg /\ args[2] \notin {"-h", "--help", "-v", "--version"}) =>
          /\ log = <<>> /\ sink = <<>> /\ printed = <<>> /\ pos = 0
          /\ pc = "exited" => (exit_status \notin {0, None} /\ eprinted # <<>>)

\* C11 witness: the process has exited after an unrecognised argument, with
\* input waiting on standard input that it never touched.
C11_Witness ==
    /\ pc = "exited"
    /\ args = <<"nln", "file.txt", "--help">>
    /\ input = <<97, 10>>
    /\ exit_status = 1
    /\ eprinted # <<>>
    /\ log = <<>>

\* s has a byte that is not newline-class
HasContent(s) == \E k \in 1..Len(s) : s[k] \notin NewlineClass

\* 1-based index of the last byte of s that is not newline-class
LastContent(s) ==
    CHOOSE k \in 1..Len(s) :
        /\ s[k] \notin NewlineClass
        /\ \A j \in (k + 1)..Len(s) : s[j] \in NewlineClass

\* the log entries made since the current chunk was borrowed, that
\* fill_buf included
StepCalls == SubSeq(log, at_step.calls, Len(log))

\* a step has been completed and the next fill_buf is about to be called
AtBoundary == pc = "fill_buf" /\ at_step.calls > 0

\* C12: every byte held in nlbuf is \n or \r, and nlbuf is empty when the
\* call starts.
C12_PendingOnlyNewlines ==
    /\ \A k \in 1..Len(nlbuf) : nlbuf[k] = 10 \/ nlbuf[k] = 13
    /\ log = <<>> => nlbuf = <<>>

\* C12 witness: after a step that wrote content, nlbuf holds \r\n.
C12_Witness ==
    /\ AtBoundary
    /\ nlbuf = <<13, 10>>
    /\ sink # <<>>

\* C13: a successful write of nlbuf is always followed, with no read in
\* between, by a write of a chunk prefix that ends in a non-newline byte
\* (so the sink then ends in that byte), and the flush at exhaustion leaves
\* the sink as it is: what nlbuf still holds is not written.
C13_NeverEmittedAlone ==
    /\ [] ( /\ \A k \in 1..Len(log) :
                  log[k] = [op |-> "write_nlbuf", err |-> "none"] =>
                      IF k < Len(log)
                         THEN log[k + 1].op = "write_prefix"
                         ELSE /\ pc \in {"clear", "write_prefix"}
                              /\ last_not_newline \in 0..(Len(buf) - 1)
                              /\ buf[last_not_newline + 1] \notin NewlineClass
            /\ (log # <<>> /\ log[Len(log)] = [op |-> "write_prefix", err |-> "none"])
                  => (sink # <<>> /\ sink[Len(sink)] \notin NewlineClass) )
    /\ [][pc = "flush" => sink' = sink]_vars

\* C13 witness: a successful call that wrote pending newlines in front of
\* content in its second step and ended with a newline still in nlbuf.
C13_Witness ==
    /\ Returned
    /\ nlbuf # <<>>
    /\ \E k \in 1..(Len(log) - 1) :
          /\ log[k] = [op |-> "write_nlbuf", err |-> "none"]
          /\ log[k + 1] = [op |-> "write_prefix", err |-> "none"]
          /\ k > 3
    /\ \E k \in 1..(Len(sink) - 1) : sink[k] \in NewlineClass

\* C14: in a step on a chunk whose last non-newline byte is at p, the sink
\* gets the old nlbuf first and chunk[0..=p] after it, and the step ends
\* with nlbuf equal to chunk[p+1..] alone.
C14_ContentStep ==
    (at_step.calls > 0 /\ HasContent(at_step.chunk)) =>
        LET c == at_step.chunk
            p == LastContent(c)
            afterNl == at_step.sink \o at_step.nlbuf
            afterPrefix == afterNl \o SubSeq(c, 1, p)
        IN  /\ pc \in {"scan", "write_nlbuf"} => sink = at_step.sink
            /\ pc \in {"clear", "write_prefix"} => sink = afterNl
            /\ pc \in {"extend_suffix", "consume"} => sink = afterPrefix
            /\ (pc = "consume" \/ AtBoundary) => nlbuf = SubSeq(c, p + 1, Len(c))
            /\ AtBoundary =>
                  /\ sink = afterPrefix
                  /\ [i \in 1..Len(StepCalls) |-> StepCalls[i].op]
                        = <<"fill_buf", "write_nlbuf", "write_prefix", "consume">>

\* C14 witness: a step on the chunk b\r that started with \n pending has
\* been completed.
C14_Witness ==
    /\ AtBoundary
    /\ at_step.sink = <<97>>
    /\ at_step.nlbuf = <<10>>
    /\ at_step.chunk = <<98, 13>>
    /\ sink = <<97, 10, 98>>
    /\ nlbuf = <<13>>

\* C15: a step on a chunk of newline-class bytes only never touches the
\* sink (no write, no flush), ends with nlbuf equal to its old content
\* followed by the whole chunk, and advances the source by the whole chunk.
C15_NewlineOnlyStep ==
    (at_step.calls > 0 /\ at_step.chunk # <<>> /\ ~HasContent(at_step.chunk)) =>
        /\ sink = at_step.sink
        /\ \A i \in 1..Len(StepCalls) : StepCalls[i].op \in {"fill_buf", "consume"}
        /\ pc \in {"scan", "extend_all"} => (nlbuf = at_step.nlbuf /\ pos = at_step.pos)
        /\ pc = "consume_all" =>
              (nlbuf = at_step.nlbuf \o at_step.chunk /\ pos = at_step.pos)
        /\ AtBoundary =>
              /\ nlbuf = at_step.nlbuf \o at_step.chunk
              /\ pos = at_step.pos + Len(at_step.chunk)
              /\ StepCalls = << [op |-> "fill_buf", err |-> "none"],
                                [op |-> "consume", err |-> "none"] >>
        /\ \/ pc \in {"scan", "extend_all", "consume_all", "fill_buf"}
           \/ pc = "done" /\ log[Len(log)].op = "fill_buf" /\ result \in IOErrors

\* C15 witness: a step on the chunk \r\n has been completed with \n already
\* pending and content already in the sink.
C15_Witness ==
    /\ AtBoundary
    /\ at_step.chunk = <<13, 10>>
    /\ at_step.nlbuf = <<10>>
    /\ at_step.sink = <<97>>
    /\ nlbuf = <<10, 13, 10>>
    /\ sink = <<97>>

\* C16: a chunk is consumed in full, once, and only when sink ++ nlbuf has
\* grown by exactly that chunk; every fill_buf but the first comes directly
\* after a consume, and the chunks handed out tile the input without gap
\* or overlap.
C16_ConsumeWholeChunk ==
    /\ \A k \in 2..Len(log) : log[k].op = "fill_buf" => log[k - 1].op = "consume"
    /\ \A k \in 1..Len(log) :
          log[k].op = "consume" => (k > 1 /\ log[k - 1].op # "consume")
    /\ at_step.chunk = SubSeq(input, at_step.pos + 1, at_step.pos + Len(at_step.chunk))
    /\ at_step.pos = Len(at_step.sink) + Len(at_step.nlbuf)
    /\ pc \in {"consume", "consume_all"} =>
          /\ pos = at_step.pos
          /\ sink \o nlbuf = (at_step.sink \o at_step.nlbuf) \o at_step.chunk
    /\ AtBoundary =>
          /\ pos = at_step.pos + Len(at_step.chunk)
          /\ log[Len(log)].op = "consume"
          /\ sink \o nlbuf = (at_step.sink \o at_step.nlbuf) \o at_step.chunk
    /\ pc \in {"scan", "extend_all", "write_nlbuf", "clear", "write_prefix",
               "extend_suffix"} => pos = at_step.pos

\* C16 witness: the second of two two-byte chunks, one with content and one
\* without, has just been consumed.
C16_Witness ==
    /\ AtBoundary
    /\ at_step.pos = 2
    /\ at_step.chunk = <<10, 13>>
    /\ pos = 4
    /\ sink = <<10, 97>>
    /\ Cardinality(CallsOf("consume")) = 2

\* the maximal newline-class suffix of s
NewlineSuffix(s) == SubSeq(s, Len(trim(s)) + 1, Len(s))

\* the source has reported exhaustion (fill_buf returned the empty chunk)
Exhausted == at_step.calls > 0 /\ at_step.chunk = <<>>

\* C17: the call always comes to an end; when no call on the source or the
\* sink failed its value is Ok; the empty chunk is only handed out once the
\* whole input is consumed, and after it the only call made is the flush.
C17_Terminates ==
    /\ <>(pc = "done")
    /\ [] ( /\ (pc = "done" /\ \A k \in 1..Len(log) : log[k].err = "none")
                  => result = "Ok"
            /\ Exhausted =>
                  /\ pos = Len(input)
                  /\ pc \in {"flush", "done"}
                  /\ pc = "flush" => Len(StepCalls) = 1
                  /\ pc = "done" =>
                        (Len(StepCalls) = 2 /\ StepCalls[2].op = "flush")
            /\ (pc = "done" /\ result = "Ok") => Exhausted )

\* C17 witness: a four-byte input read in three chunks, then the empty
\* chunk, and the call has returned Ok.
C17_Witness ==
    /\ Returned
    /\ Exhausted
    /\ Len(input) = 4
    /\ Cardinality(CallsOf("fill_buf")) = 4
    /\ Cardinality(CallsOf("consume")) = 3

\* C18: whenever a chunk has just been consumed, and at exhaustion, the
\* sink followed by nlbuf is exactly the input consumed so far and nlbuf is
\* the maximal newline-class suffix of it; at exhaustion that is the whole
\* input and its trailing run.
C18_Conservation ==
    /\ (pc = "fill_buf" \/ Exhausted) =>
          /\ sink \o nlbuf = SubSeq(input, 1, pos)
          /\ nlbuf = NewlineSuffix(SubSeq(input, 1, pos))
    /\ Exhausted => (pos = Len(input) /\ nlbuf = NewlineSuffix(input))

\* C18 witness: at exhaustion, after two steps that wrote content, nlbuf
\* holds the two-byte trailing run.
C18_Witness ==
    /\ pc = "flush"
    /\ nlbuf = <<10, 13>>
    /\ sink = <<97, 98>>
    /\ input = <<97, 98, 10, 13>>
    /\ Cardinality(CallsOf("consume")) = 2

\* C19: in every state, in the middle of a step and after a failure with a
\* partly delivered write included, the sink holds a prefix of trim(input).
C19_PrefixSafety == IsPrefix(sink, trim(input))

\* C19 witness: a write of the two-byte prefix of a chunk failed after
\* delivering one byte, on an input that ends in a newline run.
C19_Witness ==
    /\ Aborted
    /\ log[Len(log)].op = "write_prefix"
    /\ input = <<97, 10, 98, 13>>
    /\ at_step.chunk = <<10, 98, 13>>
    /\ sink = <<97, 10>>

====
